---- MODULE Spec2Model ----
(***************************************************************************)
(* RAGmine service (src/rag_service/app.py): the keyword scorer/ranker     *)
(* simple_search over the module-level corpus MOCK_DOCUMENTS and the       *)
(* /search handler that applies it.                                        *)
(*                                                                         *)
(* Text is a sequence of one-character strings, so that lowercasing,       *)
(* substring search, whitespace splitting and slicing are computed, not    *)
(* assumed.  A score is held exactly, in tenths (0.8 is 8, 0.1 is 1); the   *)
(* rounding of the code's float additions is not modelled.                 *)
(***************************************************************************)
EXTENDS Integers, Sequences, FiniteSets, TLC

VARIABLES
  MOCK_DOCUMENTS,   \* the module-level corpus, app.py:69
  request,          \* the SearchRequest being served
  response,         \* the last SearchResponse
  test_queries,     \* the suite of the harness, test_integration.py:46
  backends,         \* per query, what each of its requests meets
  pc,               \* where test_search_comparison stands
  qi,               \* the index of the query of the loop of line 372
  now,              \* time.time(), in seconds
  calls,            \* the requests made for the current query, in order
  baseline_result,  \* the SearchResult of run_baseline_search
  rag_result,       \* the SearchResult of run_rag_search
  rag_locals,       \* start_time and response_time of run_rag_search
  failed,           \* the queries line 377 reported as failed
  test_results,     \* the records of line 370
  report,           \* the report of line 381
  error,            \* what test_search_comparison raised
  served,           \* the endpoints of the service answered so far
  index_response,   \* the last answer of /index/rebuild or /index/add
  service,          \* wait_for_services: the index of the service polled
  attempt,          \* wait_for_services: the attempt of line 94
  requests_made,    \* wait_for_services: the requests made, per service
  ready             \* wait_for_services: the services that answered 200

svars == <<MOCK_DOCUMENTS, request, response, served, index_response>>

hvars == <<test_queries, backends, pc, qi, now, calls, baseline_result,
           rag_result, rag_locals, failed, test_results, report, error>>

wvars == <<service, attempt, requests_made, ready>>

vars == <<svars, hvars, wvars>>

----------------------------------------------------------------------------
(* Program constants, in tenths of a score point or in characters.         *)

TitleQueryScore == 8
ContentQueryScore == 5
TitleWordScore == 3
ContentWordScore == 1
DisplayLimit == 200
DefaultMaxResults == 20

Ellipsis == <<".", ".", ".">>

----------------------------------------------------------------------------
(* Bounds of the checked inputs.                                           *)

MaxDocs == 2
MaxQueryLen == 3
MaxResults == 2
MaxOver == 2
MaxItems == 2
MaxCount == 12
MaxQueries == 3
MaxRequests == 3

----------------------------------------------------------------------------
(* str.lower(), the `in` operator on strings, str.split() and slicing.     *)

\* The cased letters of the checked texts and their lowercase forms.
LowerOf ==
  ("A" :> "a") @@ ("B" :> "b") @@ ("C" :> "c") @@ ("D" :> "d") @@ ("E" :> "e") @@
  ("F" :> "f") @@ ("G" :> "g") @@ ("H" :> "h") @@ ("I" :> "i") @@ ("J" :> "j") @@
  ("K" :> "k") @@ ("L" :> "l") @@ ("M" :> "m") @@ ("N" :> "n") @@ ("O" :> "o") @@
  ("P" :> "p") @@ ("Q" :> "q") @@ ("R" :> "r") @@ ("S" :> "s") @@ ("T" :> "t") @@
  ("U" :> "u") @@ ("V" :> "v") @@ ("W" :> "w") @@ ("X" :> "x") @@ ("Y" :> "y") @@
  ("Z" :> "z")

Whitespace == {" ", "\t", "\n", "\r", "\f"}

lower_char(c) == IF c \in DOMAIN LowerOf THEN LowerOf[c] ELSE c

\* Mutant of lower: the text is compared in the case it was written in.
lower_not_applied(s) == s

lower(s) == [i \in 1..Len(s) |-> lower_char(s[i])]

\* needle in hay: some offset at which hay reads needle; the empty needle
\* is found at offset 0 of every hay.
contains(needle, hay) ==
  \E i \in 0..(Len(hay) - Len(needle)) :
    \A j \in 1..Len(needle) : hay[i + j] = needle[j]

\* s.split(): the maximal runs of non-whitespace characters, in order.
RECURSIVE split_from(_, _, _, _)
split_from(s, i, word, words) ==
  IF i > Len(s)
  THEN IF word = <<>> THEN words ELSE Append(words, word)
  ELSE IF s[i] \in Whitespace
       THEN split_from(s, i + 1, <<>>,
                       IF word = <<>> THEN words ELSE Append(words, word))
       ELSE split_from(s, i + 1, Append(word, s[i]), words)

split(s) == split_from(s, 1, <<>>, <<>>)

\* Mutant of slice_to: the slice keeps one item too many, s[:n + 1].
slice_one_more(s, n) ==
  LET stop == IF n + 1 > Len(s) THEN Len(s) ELSE (IF n + 1 < 0 THEN 0 ELSE n + 1)
  IN SubSeq(s, 1, stop)

\* s[:n] of Python: the first n items, or all but the last -n when n < 0.
slice_to(s, n) ==
  LET stop == IF n < 0
              THEN (IF Len(s) + n < 0 THEN 0 ELSE Len(s) + n)
              ELSE (IF n > Len(s) THEN Len(s) ELSE n)
  IN SubSeq(s, 1, stop)

----------------------------------------------------------------------------
(* simple_search, app.py:100-142.                                          *)

\* Mutant of word_matches: a word the query repeats is scored once only.
RECURSIVE word_matches_distinct(_, _, _, _, _)
word_matches_distinct(query_words, k, title_lower, content_lower, score) ==
  IF k > Len(query_words)
  THEN score
  ELSE LET word == query_words[k]
           seen == \E h \in 1..(k - 1) : query_words[h] = word
           s1 == IF ~seen /\ contains(word, title_lower)
                 THEN score + TitleWordScore ELSE score
           s2 == IF ~seen /\ contains(word, content_lower)
                 THEN s1 + ContentWordScore ELSE s1
       IN word_matches_distinct(query_words, k + 1, title_lower,
                                content_lower, s2)

\* for word in query_words: the loop of lines 124-128 from word k on.
RECURSIVE word_matches(_, _, _, _, _)
word_matches(query_words, k, title_lower, content_lower, score) ==
  IF k > Len(query_words)
  THEN score
  ELSE LET word == query_words[k]
           s1 == IF contains(word, title_lower)
                 THEN score + TitleWordScore ELSE score
           s2 == IF contains(word, content_lower)
                 THEN s1 + ContentWordScore ELSE s1
       IN word_matches(query_words, k + 1, title_lower, content_lower, s2)

\* The content argument of line 134.
display_content(content) ==
  IF Len(content) > DisplayLimit
  THEN SubSeq(content, 1, DisplayLimit) \o Ellipsis
  ELSE content

\* Mutant of doc_score: the content is cut for display before it is scored.
doc_score_of_shown(doc, query_lower) ==
  LET title_lower == lower(doc.title)
      content_lower == lower(display_content(doc.content))
      s1 == IF contains(query_lower, title_lower)
            THEN TitleQueryScore ELSE 0
      s2 == IF contains(query_lower, content_lower)
            THEN s1 + ContentQueryScore ELSE s1
      query_words == split(query_lower)
  IN word_matches(query_words, 1, title_lower, content_lower, s2)

\* The score of one document, lines 110-128.
doc_score(doc, query_lower) ==
  LET title_lower == lower(doc.title)
      content_lower == lower(doc.content)
      s1 == IF contains(query_lower, title_lower)
            THEN TitleQueryScore ELSE 0
      s2 == IF contains(query_lower, content_lower)
            THEN s1 + ContentQueryScore ELSE s1
      query_words == split(query_lower)
  IN word_matches(query_words, 1, title_lower, content_lower, s2)

\* SearchResult(...) of lines 131-138.
make_result(doc, score) ==
  [id |-> doc.id,
   title |-> doc.title,
   content |-> display_content(doc.content),
   score |-> score,
   source |-> doc.source,
   metadata |-> doc.metadata]

\* Mutant of keeps: the filter lets a zero score through, score >= 0.
keeps_zero(score) == score >= 0

\* if score > 0, line 130.
keeps(score) == score > 0

\* for doc in MOCK_DOCUMENTS: the loop of lines 108-138 from document i on.
RECURSIVE collect(_, _, _, _)
collect(docs, i, query_lower, results) ==
  IF i > Len(docs)
  THEN results
  ELSE LET score == doc_score(docs[i], query_lower)
       IN collect(docs, i + 1, query_lower,
                  IF keeps(score)
                  THEN Append(results, make_result(docs[i], score))
                  ELSE results)

\* Mutant of insert_by_score: the sort is ascending (reverse=True left out).
insert_ascending(sorted, x) ==
  LET k == Cardinality({j \in 1..Len(sorted) : sorted[j].score <= x.score})
  IN SubSeq(sorted, 1, k) \o <<x>> \o SubSeq(sorted, k + 1, Len(sorted))

\* Mutant of insert_by_score: descending but not stable, x goes in front of
\* the items of its own score (an ascending sort that is then reversed).
insert_before_equals(sorted, x) ==
  LET k == Cardinality({j \in 1..Len(sorted) : sorted[j].score > x.score})
  IN SubSeq(sorted, 1, k) \o <<x>> \o SubSeq(sorted, k + 1, Len(sorted))

\* Where list.sort(key=score, reverse=True) puts x among the items already
\* in order: behind every item whose score is at least x's, so that equal
\* scores keep the order they came in.
insert_by_score(sorted, x) ==
  LET k == Cardinality({j \in 1..Len(sorted) : sorted[j].score >= x.score})
  IN SubSeq(sorted, 1, k) \o <<x>> \o SubSeq(sorted, k + 1, Len(sorted))

\* results.sort(key=lambda x: x.score, reverse=True), line 141.
RECURSIVE sort_from(_, _, _)
sort_from(results, i, sorted) ==
  IF i > Len(results)
  THEN sorted
  ELSE sort_from(results, i + 1, insert_by_score(sorted, results[i]))

sort_by_score(results) == sort_from(results, 1, <<>>)

simple_search(query, max_results, docs) ==
  LET query_lower == lower(query)
      results == collect(docs, 1, query_lower, <<>>)
  IN slice_to(sort_by_score(results), max_results)

----------------------------------------------------------------------------
(* POST /search, app.py:158-183.  The handler keeps nothing between two    *)
(* requests, so a behaviour is one request: it arrives with the initial    *)
(* state and the handler answers it once.                                  *)

NoResponse ==
  [status_code |-> 0, query |-> <<>>, results |-> <<>>, total_count |-> 0,
   method |-> "none"]

\* The answer of an index endpoint is a dict; `keys` are the keys it has.
NoIndexResponse ==
  [status |-> "none", message |-> <<>>, documents_indexed |-> 0, keys |-> {}]

\* No request has been answered and no index endpoint has been called.
IndexIdle ==
  /\ served = <<>>
  /\ index_response = NoIndexResponse

search ==
  /\ response = NoResponse
  /\ LET results == simple_search(request.query, request.max_results,
                                  MOCK_DOCUMENTS)
     IN response' = [status_code |-> 200,
                     query |-> request.query,
                     results |-> results,
                     total_count |-> Len(results),
                     method |-> "rag"]
  /\ served' = Append(served, "/search")
  /\ UNCHANGED <<MOCK_DOCUMENTS, request, index_response>>
  /\ UNCHANGED hvars
  /\ UNCHANGED wvars

----------------------------------------------------------------------------
(* The integration harness, tests/test_integration.py: the dual-search     *)
(* runner, the metrics calculator and the comparison over a query suite.   *)
(*                                                                         *)
(* The two backends are opaque HTTP services.  What each call of a run     *)
(* will meet is drawn with the initial state (backends): it raises (a      *)
(* network error, a timeout), or it answers with a status code and, for    *)
(* 200, a body that is JSON or not.  A call lasts `duration` seconds of    *)
(* the clock `now`; the statements between two calls take no time.         *)
(* A ratio (a relevance, a recall, a mean) is an exact fraction            *)
(* [num, den] in lowest terms; the rounding of the code's floats is not    *)
(* modelled.                                                               *)

RecallDivisor == 10
TimePenaltyDivisor == 10

Abs(x) == IF x < 0 THEN -x ELSE x

RECURSIVE GCD(_, _)
GCD(a, b) == IF b = 0 THEN a ELSE GCD(b, a % b)

\* num / den in lowest terms, den > 0.
Ratio(num, den) ==
  LET g == GCD(Abs(num), Abs(den))
      s == IF den < 0 THEN -1 ELSE 1
  IN [num |-> s * (num \div g), den |-> s * (den \div g)]

Whole(n) == [num |-> n, den |-> 1]

RatAdd(a, b) == Ratio(a.num * b.den + b.num * a.den, a.den * b.den)

RatSub(a, b) == Ratio(a.num * b.den - b.num * a.den, a.den * b.den)

RatLess(a, b) == a.num * b.den < b.num * a.den

RatLeq(a, b) == a.num * b.den <= b.num * a.den

RatMin(a, b) == IF RatLess(b, a) THEN b ELSE a

RatMax(a, b) == IF RatLess(a, b) THEN b ELSE a

\* What one HTTP call meets.
Raised(duration) ==
  [raises |-> TRUE, status_code |-> 0, json_ok |-> FALSE, results |-> <<>>,
   has_total_count |-> FALSE, total_count |-> 0, duration |-> duration]

Status(code, duration) ==
  [raises |-> FALSE, status_code |-> code, json_ok |-> FALSE, results |-> <<>>,
   has_total_count |-> FALSE, total_count |-> 0, duration |-> duration]

NotJson(duration) ==
  [raises |-> FALSE, status_code |-> 200, json_ok |-> FALSE, results |-> <<>>,
   has_total_count |-> FALSE, total_count |-> 0, duration |-> duration]

Items(results, duration) ==
  [raises |-> FALSE, status_code |-> 200, json_ok |-> TRUE, results |-> results,
   has_total_count |-> FALSE, total_count |-> 0, duration |-> duration]

Counted(results, total_count, duration) ==
  [raises |-> FALSE, status_code |-> 200, json_ok |-> TRUE, results |-> results,
   has_total_count |-> TRUE, total_count |-> total_count, duration |-> duration]

\* SearchResult, lines 23-29.
SearchResult(query, results, response_time, total_count, method) ==
  [query |-> query, results |-> results, response_time |-> response_time,
   total_count |-> total_count, method |-> method]

NoResult == SearchResult("", <<>>, 0, 0, "none")

\* run_baseline_search without its except clause: a failed request leaves
\* the caller without a SearchResult.
run_baseline_search_unguarded(query, met, start_time, end_time) ==
  IF met.raises \/ (met.status_code = 200 /\ ~met.json_ok)
  THEN NoResult
  ELSE SearchResult(query, met.results, end_time - start_time,
                    Len(met.results), "baseline")

\* run_baseline_search, lines 105-142: the call started at start_time met
\* `met` and was over at end_time.  response.json() of a body that is no
\* JSON raises into the except clause of line 130, like a failed request.
run_baseline_search(query, met, start_time, end_time) ==
  LET response_time == end_time - start_time
  IN IF met.raises
     THEN SearchResult(query, <<>>, response_time, 0, "baseline")
     ELSE IF met.status_code = 200
          THEN IF met.json_ok
               THEN SearchResult(query, met.results, response_time,
                                 Len(met.results), "baseline")
               ELSE SearchResult(query, <<>>, response_time, 0, "baseline")
          ELSE SearchResult(query, <<>>, response_time, 0, "baseline")

\* A fallback reserved for the status 503 alone.
falls_back_on_unavailable(met) == ~met.raises /\ met.status_code = 503

\* Whether run_rag_search goes on to its second request, line 166: the
\* first one returned a response whose status is not 200.
falls_back(met) == ~met.raises /\ met.status_code # 200

\* run_rag_search without the fallback, lines 146-165 and 183-195.
rag_primary_result(query, met, start_time, end_time) ==
  LET response_time == end_time - start_time
  IN IF met.raises \/ ~met.json_ok
     THEN SearchResult(query, <<>>, response_time, 0, "rag")
     ELSE SearchResult(query, met.results, response_time,
                       IF met.has_total_count
                       THEN met.total_count ELSE Len(met.results),
                       "rag")

\* run_rag_search after the fallback request, lines 168-195: response_time
\* is still the one of line 160 unless the except clause takes it again.
rag_fallback_result(query, met, start_time, response_time, end_time) ==
  IF met.raises
  THEN SearchResult(query, <<>>, end_time - start_time, 0, "rag")
  ELSE IF met.status_code = 200
       THEN IF met.json_ok
            THEN SearchResult(query, met.results, response_time,
                              Len(met.results), "rag")
            ELSE SearchResult(query, <<>>, end_time - start_time, 0, "rag")
       ELSE SearchResult(query, <<>>, response_time, 0, "rag")

----------------------------------------------------------------------------
(* The metrics calculator, lines 197-249.  A value that may raise is       *)
(* [raised, value].                                                        *)

Value(v) == [raised |-> FALSE, value |-> v]

ZeroDivision == [raised |-> TRUE, value |-> Whole(0)]

\* The text of line 205: title, a space, description, lowercased; a key
\* the item lacks reads as the empty text.
item_content(item) == lower(item.title \o <<" ">> \o item.description)

\* The loop of lines 207-209 with the keyword taken as written.
RECURSIVE keyword_matches_case_sensitive(_, _, _, _)
keyword_matches_case_sensitive(content, expected_keywords, k, item_score) ==
  IF k > Len(expected_keywords)
  THEN item_score
  ELSE keyword_matches_case_sensitive(
         content, expected_keywords, k + 1,
         IF contains(expected_keywords[k], content)
         THEN item_score + 1 ELSE item_score)

\* for keyword in expected_keywords, lines 207-209, from keyword k on.
RECURSIVE keyword_matches(_, _, _, _)
keyword_matches(content, expected_keywords, k, item_score) ==
  IF k > Len(expected_keywords)
  THEN item_score
  ELSE keyword_matches(content, expected_keywords, k + 1,
                       IF contains(lower(expected_keywords[k]), content)
                       THEN item_score + 1 ELSE item_score)

\* for item in result.results, lines 203-213, from item i on.
RECURSIVE items_score(_, _, _, _)
items_score(results, expected_keywords, i, total_score) ==
  IF i > Len(results)
  THEN total_score
  ELSE LET item_score == keyword_matches(item_content(results[i]),
                                         expected_keywords, 1, 0)
       IN items_score(results, expected_keywords, i + 1,
                      RatAdd(total_score,
                             Ratio(item_score, Len(expected_keywords))))

calculate_relevance_score(result, expected_keywords) ==
  IF result.results = <<>>
  THEN Value(Whole(0))
  ELSE IF Len(expected_keywords) = 0
       THEN ZeroDivision
       ELSE LET total_score == items_score(result.results, expected_keywords,
                                           1, Whole(0))
            IN Value(Ratio(total_score.num,
                           total_score.den * Len(result.results)))

\* TestMetrics whose user_satisfaction is not floored at 0.
method_metrics_unfloored(result, relevance) ==
  LET precision == RatMin(relevance, Whole(1))
  IN [precision |-> precision,
      recall |-> RatMin(Ratio(result.total_count, RecallDivisor), Whole(1)),
      response_time |-> result.response_time,
      relevance_score |-> relevance,
      user_satisfaction |->
        RatSub(precision, Ratio(result.response_time, TimePenaltyDivisor))]

\* TestMetrics whose recall counts the returned items.
method_metrics_recall_of_items(result, relevance) ==
  LET precision == RatMin(relevance, Whole(1))
  IN [precision |-> precision,
      recall |-> RatMin(Ratio(Len(result.results), RecallDivisor), Whole(1)),
      response_time |-> result.response_time,
      relevance_score |-> relevance,
      user_satisfaction |->
        RatMax(Whole(0),
               RatSub(precision,
                      Ratio(result.response_time, TimePenaltyDivisor)))]

\* TestMetrics of one method, lines 224-248.
method_metrics(result, relevance) ==
  LET precision == RatMin(relevance, Whole(1))
      recall == RatMin(Ratio(result.total_count, RecallDivisor), Whole(1))
      satisfaction ==
        RatMax(Whole(0),
               RatSub(precision, Ratio(result.response_time, TimePenaltyDivisor)))
  IN [precision |-> precision,
      recall |-> recall,
      response_time |-> result.response_time,
      relevance_score |-> relevance,
      user_satisfaction |-> satisfaction]

NoMetrics == method_metrics(NoResult, Whole(0))

calculate_metrics(baseline, rag, expected_keywords) ==
  LET baseline_relevance == calculate_relevance_score(baseline, expected_keywords)
      rag_relevance == calculate_relevance_score(rag, expected_keywords)
  IN IF baseline_relevance.raised \/ rag_relevance.raised
     THEN [raised |-> TRUE, baseline |-> NoMetrics, rag |-> NoMetrics]
     ELSE [raised |-> FALSE,
           baseline |-> method_metrics(baseline, baseline_relevance.value),
           rag |-> method_metrics(rag, rag_relevance.value)]

----------------------------------------------------------------------------
(* run_comparison_test, lines 251-299, and generate_report, lines 301-334. *)

\* A query configuration is a dict; `keys` are the keys it has.
QueryConfig(query, type, expected_keywords, keys) ==
  [query |-> query, type |-> type, expected_keywords |-> expected_keywords,
   keys |-> keys]

AllKeys == {"query", "type", "expected_keywords", "expected_min_results"}

\* The record with the response_time delta taken as candidate - baseline.
comparison_record_time_reversed(query_config, baseline, rag, metrics) ==
  [query |-> query_config.query,
   type |-> query_config.type,
   baseline |-> baseline,
   rag |-> rag,
   metrics |-> [baseline |-> metrics.baseline, rag |-> metrics.rag],
   improvement |->
     [precision |-> RatSub(metrics.rag.precision, metrics.baseline.precision),
      recall |-> RatSub(metrics.rag.recall, metrics.baseline.recall),
      relevance |-> RatSub(metrics.rag.relevance_score,
                           metrics.baseline.relevance_score),
      response_time |-> Whole(rag.response_time - baseline.response_time)]]

\* The dict of lines 287-299.
comparison_record(query_config, baseline, rag, metrics) ==
  [query |-> query_config.query,
   type |-> query_config.type,
   baseline |-> baseline,
   rag |-> rag,
   metrics |-> [baseline |-> metrics.baseline, rag |-> metrics.rag],
   improvement |->
     [precision |-> RatSub(metrics.rag.precision, metrics.baseline.precision),
      recall |-> RatSub(metrics.rag.recall, metrics.baseline.recall),
      relevance |-> RatSub(metrics.rag.relevance_score,
                           metrics.baseline.relevance_score),
      response_time |-> Whole(baseline.response_time - rag.response_time)]]

\* sum(r['improvement'][dimension] for r in records), from record i on.
RECURSIVE sum_improvement(_, _, _, _)
sum_improvement(records, dimension, i, total) ==
  IF i > Len(records)
  THEN total
  ELSE sum_improvement(records, dimension, i + 1,
                       RatAdd(total, records[i].improvement[dimension]))

average_improvement(records, dimension) ==
  LET total == sum_improvement(records, dimension, 1, Whole(0))
  IN Ratio(total.num, total.den * Len(records))

\* A count of improvements that takes a delta of 0 for one.
count_improvements_with_ties(records, dimension) ==
  Cardinality({i \in 1..Len(records) :
                 RatLeq(Whole(0), records[i].improvement[dimension])})

\* sum(1 for r in records if r['improvement'][dimension] > 0)
count_improvements(records, dimension) ==
  Cardinality({i \in 1..Len(records) :
                 RatLess(Whole(0), records[i].improvement[dimension])})

\* The text "count/total queries" of lines 326-329.
Tally(count, total) == [count |-> count, total |-> total]

\* generate_report for a non-empty list; on an empty one line 306 divides
\* by zero.
generate_report(records) ==
  LET total_tests == Len(records)
  IN [summary |->
        [total_tests |-> total_tests,
         precision_improvement |->
           average_improvement(records, "precision"),
         recall_improvement |-> average_improvement(records, "recall"),
         relevance_improvement |->
           average_improvement(records, "relevance"),
         response_time_improvement |->
           average_improvement(records, "response_time")],
      improvements |->
        [precision |->
           Tally(count_improvements(records, "precision"), total_tests),
         recall |->
           Tally(count_improvements(records, "recall"), total_tests),
         relevance |->
           Tally(count_improvements(records, "relevance"), total_tests),
         speed |->
           Tally(count_improvements(records, "response_time"),
                 total_tests)],
      detailed_results |-> records]

NoReport ==
  [summary |->
     [total_tests |-> 0,
      precision_improvement |-> Whole(0),
      recall_improvement |-> Whole(0),
      relevance_improvement |-> Whole(0),
      response_time_improvement |-> Whole(0)],
   improvements |->
     [precision |-> Tally(0, 0), recall |-> Tally(0, 0),
      relevance |-> Tally(0, 0), speed |-> Tally(0, 0)],
   detailed_results |-> <<>>]

----------------------------------------------------------------------------
(* test_search_comparison, lines 365-400, step by step: the loop over the  *)
(* suite, the three requests of a query, the metrics and the record, the   *)
(* report and the final assertion.                                         *)

\* wait_for_services, lines 85-103: the services polled, in order, and
\* the attempts made for each.
services == <<"Redmica", "RAG Service">>

max_retries == 30

\* wait_for_services is not running.
WaitIdle ==
  /\ service = 0
  /\ attempt = 0
  /\ requests_made = [s \in 1..Len(services) |-> 0]
  /\ ready = {}

HarnessIdle ==
  /\ test_queries = <<>>
  /\ backends = <<>>
  /\ pc = "idle"
  /\ qi = 0
  /\ now = 0
  /\ calls = <<>>
  /\ baseline_result = NoResult
  /\ rag_result = NoResult
  /\ rag_locals = [start_time |-> 0, response_time |-> 0]
  /\ failed = <<>>
  /\ test_results = <<>>
  /\ report = NoReport
  /\ error = "none"

\* The state in which the loop of line 372 starts.
HarnessStart ==
  /\ pc = "loop"
  /\ qi = 1
  /\ now = 0
  /\ calls = <<>>
  /\ baseline_result = NoResult
  /\ rag_result = NoResult
  /\ rag_locals = [start_time |-> 0, response_time |-> 0]
  /\ failed = <<>>
  /\ test_results = <<>>
  /\ report = NoReport
  /\ error = "none"

\* Lines 372-378 and 253-254: the next configuration of the suite.  A
\* missing 'expected_keywords' raises KeyError into line 376 and the query
\* is left out; a missing 'query' raises it at line 253 and again in the
\* message of line 377, inside the handler, and so out of the test.
BeginQuery ==
  /\ pc = "loop"
  /\ qi <= Len(test_queries)
  /\ IF "query" \notin test_queries[qi].keys
     THEN /\ error' = "KeyError"
          /\ pc' = "raised"
          /\ UNCHANGED <<qi, failed, calls, baseline_result, rag_result>>
     ELSE IF "expected_keywords" \notin test_queries[qi].keys
     THEN /\ failed' = Append(failed, qi)
          /\ qi' = qi + 1
          /\ UNCHANGED <<pc, calls, baseline_result, rag_result, error>>
     ELSE /\ pc' = "baseline"
          /\ calls' = <<>>
          /\ baseline_result' = NoResult
          /\ rag_result' = NoResult
          /\ UNCHANGED <<qi, failed, error>>
  /\ UNCHANGED <<test_queries, backends, now, rag_locals, test_results,
                 report>>
  /\ UNCHANGED svars
  /\ UNCHANGED wvars

\* Line 259: run_baseline_search.
BaselineSearch ==
  /\ pc = "baseline"
  /\ LET met == backends[qi].baseline
     IN /\ now' = now + met.duration
        /\ baseline_result' =
             run_baseline_search(test_queries[qi].query, met, now, now')
  /\ calls' = Append(calls, "baseline")
  /\ pc' = "rag_primary"
  /\ UNCHANGED <<test_queries, backends, qi, rag_result, rag_locals, failed,
                 test_results, report, error>>
  /\ UNCHANGED svars
  /\ UNCHANGED wvars

\* Line 260: run_rag_search up to the answer of its first request.
RagPrimary ==
  /\ pc = "rag_primary"
  /\ LET met == backends[qi].primary
     IN /\ now' = now + met.duration
        /\ IF falls_back(met)
           THEN /\ rag_locals' = [start_time |-> now,
                                  response_time |-> now' - now]
                /\ pc' = "rag_fallback"
                /\ UNCHANGED rag_result
           ELSE /\ rag_result' =
                     rag_primary_result(test_queries[qi].query, met, now, now')
                /\ pc' = "metrics"
                /\ UNCHANGED rag_locals
  /\ calls' = Append(calls, "primary")
  /\ UNCHANGED <<test_queries, backends, qi, baseline_result, failed,
                 test_results, report, error>>
  /\ UNCHANGED svars
  /\ UNCHANGED wvars

\* A fallback that, when it fails, goes back to the first request.
RagFallback_retrying ==
  /\ pc = "rag_fallback"
  /\ LET met == backends[qi].fallback
     IN /\ now' = now + met.duration
        /\ rag_result' =
             rag_fallback_result(test_queries[qi].query, met,
                                 rag_locals.start_time,
                                 rag_locals.response_time, now')
        /\ pc' = IF met.raises \/ met.status_code # 200
                 THEN "rag_primary" ELSE "metrics"
  /\ calls' = Append(calls, "fallback")
  /\ UNCHANGED <<test_queries, backends, qi, baseline_result, rag_locals,
                 failed, test_results, report, error>>
  /\ UNCHANGED svars
  /\ UNCHANGED wvars

\* Lines 167-187: the request to the RAG service itself.
RagFallback ==
  /\ pc = "rag_fallback"
  /\ LET met == backends[qi].fallback
     IN /\ now' = now + met.duration
        /\ rag_result' =
             rag_fallback_result(test_queries[qi].query, met,
                                 rag_locals.start_time,
                                 rag_locals.response_time, now')
  /\ calls' = Append(calls, "fallback")
  /\ pc' = "metrics"
  /\ UNCHANGED <<test_queries, backends, qi, baseline_result, rag_locals,
                 failed, test_results, report, error>>
  /\ UNCHANGED svars
  /\ UNCHANGED wvars

\* Lines 263-299 and 375-378: the metrics and the record of the query; a
\* ZeroDivisionError of the metrics or the KeyError of a missing 'type'
\* is caught by line 376 and the query is left out.
CompareQuery ==
  /\ pc = "metrics"
  /\ LET query_config == test_queries[qi]
         metrics == calculate_metrics(baseline_result, rag_result,
                                      query_config.expected_keywords)
     IN IF metrics.raised \/ "type" \notin query_config.keys
        THEN /\ failed' = Append(failed, qi)
             /\ UNCHANGED test_results
        ELSE /\ test_results' =
                  Append(test_results,
                         comparison_record(query_config, baseline_result,
                                           rag_result, metrics))
             /\ UNCHANGED failed
  /\ qi' = qi + 1
  /\ pc' = "loop"
  /\ UNCHANGED <<test_queries, backends, now, calls, baseline_result,
                 rag_result, rag_locals, report, error>>
  /\ UNCHANGED svars
  /\ UNCHANGED wvars

\* Line 381, after the loop: generate_report(test_results).
GenerateReport ==
  /\ pc = "loop"
  /\ qi > Len(test_queries)
  /\ IF Len(test_results) = 0
     THEN /\ error' = "ZeroDivisionError"
          /\ pc' = "raised"
          /\ UNCHANGED report
     ELSE /\ report' = generate_report(test_results)
          /\ pc' = "assert"
          /\ UNCHANGED error
  /\ UNCHANGED <<test_queries, backends, qi, now, calls, baseline_result,
                 rag_result, rag_locals, failed, test_results>>
  /\ UNCHANGED svars
  /\ UNCHANGED wvars

\* Line 400: assert len(test_results) > 0, "No tests completed successfully".
AssertCompleted ==
  /\ pc = "assert"
  /\ IF Len(test_results) > 0
     THEN /\ pc' = "done"
          /\ UNCHANGED error
     ELSE /\ error' = "AssertionError: No tests completed successfully"
          /\ pc' = "raised"
  /\ UNCHANGED <<test_queries, backends, qi, now, calls, baseline_result,
                 rag_result, rag_locals, failed, test_results, report>>
  /\ UNCHANGED svars
  /\ UNCHANGED wvars

HarnessNext ==
  \/ BeginQuery
  \/ BaselineSearch
  \/ RagPrimary
  \/ RagFallback
  \/ CompareQuery
  \/ GenerateReport
  \/ AssertCompleted

----------------------------------------------------------------------------
(* The corpus the service ships, app.py:69-98, and the queries its tests   *)
(* send (rag_service/tests/test_app.py).                                   *)

\* issue-1001: "API Authentication Timeout Issues"
Doc_issue_1001 ==
  [id |-> "issue-1001",
   title |->
     <<"A", "P", "I", " ", "A", "u", "t", "h", "e", "n", "t", "i", "c", "a",
       "t", "i", "o", "n", " ", "T", "i", "m", "e", "o", "u", "t", " ", "I",
       "s", "s", "u", "e", "s">>,
   content |->
     <<"U", "s", "e", "r", "s", " ", "e", "x", "p", "e", "r", "i", "e", "n",
       "c", "i", "n", "g", " ", "t", "i", "m", "e", "o", "u", "t", " ", "e",
       "r", "r", "o", "r", "s", " ", "w", "h", "e", "n", " ", "a", "u", "t",
       "h", "e", "n", "t", "i", "c", "a", "t", "i", "n", "g", " ", "v", "i",
       "a", " ", "A", "P", "I", ".", " ", "S", "y", "m", "p", "t", "o", "m",
       "s", " ", "i", "n", "c", "l", "u", "d", "e", " ", "5", "0", "4", " ",
       "G", "a", "t", "e", "w", "a", "y", " ", "T", "i", "m", "e", "o", "u",
       "t", " ", "e", "r", "r", "o", "r", "s", ",", " ", "a", "u", "t", "h",
       "e", "n", "t", "i", "c", "a", "t", "i", "o", "n", " ", "r", "e", "q",
       "u", "e", "s", "t", "s", " ", "t", "a", "k", "i", "n", "g", " ", ">",
       "3", "0", " ", "s", "e", "c", "o", "n", "d", "s", ",", " ", "i", "n",
       "t", "e", "r", "m", "i", "t", "t", "e", "n", "t", " ", "f", "a", "i",
       "l", "u", "r", "e", "s", " ", "d", "u", "r", "i", "n", "g", " ", "p",
       "e", "a", "k", " ", "h", "o", "u", "r", "s", ".">>,
   source |-> "issue",
   metadata |-> [priority |-> "High", status |-> "Resolved", tags |-> <<"api", "authentication", "timeout">>]]

\* issue-1002: "Database Query Performance Degradation"
Doc_issue_1002 ==
  [id |-> "issue-1002",
   title |->
     <<"D", "a", "t", "a", "b", "a", "s", "e", " ", "Q", "u", "e", "r", "y",
       " ", "P", "e", "r", "f", "o", "r", "m", "a", "n", "c", "e", " ", "D",
       "e", "g", "r", "a", "d", "a", "t", "i", "o", "n">>,
   content |->
     <<"S", "e", "a", "r", "c", "h", " ", "q", "u", "e", "r", "i", "e", "s",
       " ", "r", "u", "n", "n", "i", "n", "g", " ", "s", "i", "g", "n", "i",
       "f", "i", "c", "a", "n", "t", "l", "y", " ", "s", "l", "o", "w", "e",
       "r", " ", "t", "h", "a", "n", " ", "e", "x", "p", "e", "c", "t", "e",
       "d", ".", " ", "P", "e", "r", "f", "o", "r", "m", "a", "n", "c", "e",
       " ", "m", "e", "t", "r", "i", "c", "s", " ", "s", "h", "o", "w", " ",
       "s", "i", "m", "p", "l", "e", " ", "s", "e", "a", "r", "c", "h", "e",
       "s", " ", "t", "a", "k", "i", "n", "g", " ", "2", "-", "5", " ", "s",
       "e", "c", "o", "n", "d", "s", ",", " ", "c", "o", "m", "p", "l", "e",
       "x", " ", "s", "e", "a", "r", "c", "h", "e", "s", " ", "1", "0", "-",
       "1", "5", " ", "s", "e", "c", "o", "n", "d", "s", ",", " ", "d", "a",
       "t", "a", "b", "a", "s", "e", " ", "C", "P", "U", " ", "u", "s", "a",
       "g", "e", " ", "8", "0", "-", "9", "0", "%", ".">>,
   source |-> "issue",
   metadata |-> [priority |-> "High", status |-> "Open", tags |-> <<"database", "performance", "search">>]]

\* wiki-api-docs: "API Documentation"
Doc_wiki_api_docs ==
  [id |-> "wiki-api-docs",
   title |->
     <<"A", "P", "I", " ", "D", "o", "c", "u", "m", "e", "n", "t", "a", "t",
       "i", "o", "n">>,
   content |->
     <<"C", "o", "m", "p", "l", "e", "t", "e", " ", "A", "P", "I", " ", "d",
       "o", "c", "u", "m", "e", "n", "t", "a", "t", "i", "o", "n", " ", "i",
       "n", "c", "l", "u", "d", "i", "n", "g", " ", "a", "u", "t", "h", "e",
       "n", "t", "i", "c", "a", "t", "i", "o", "n", " ", "m", "e", "t", "h",
       "o", "d", "s", ",", " ", "c", "o", "m", "m", "o", "n", " ", "e", "n",
       "d", "p", "o", "i", "n", "t", "s", ",", " ", "e", "r", "r", "o", "r",
       " ", "h", "a", "n", "d", "l", "i", "n", "g", ",", " ", "a", "n", "d",
       " ", "r", "a", "t", "e", " ", "l", "i", "m", "i", "t", "i", "n", "g",
       " ", "i", "n", "f", "o", "r", "m", "a", "t", "i", "o", "n", ".">>,
   source |-> "wiki",
   metadata |-> [category |-> "documentation", tags |-> <<"api", "authentication", "endpoints">>]]

\* wiki-troubleshooting: "Troubleshooting Guide"
Doc_wiki_troubleshooting ==
  [id |-> "wiki-troubleshooting",
   title |->
     <<"T", "r", "o", "u", "b", "l", "e", "s", "h", "o", "o", "t", "i", "n",
       "g", " ", "G", "u", "i", "d", "e">>,
   content |->
     <<"C", "o", "m", "m", "o", "n", " ", "i", "s", "s", "u", "e", "s", " ",
       "a", "n", "d", " ", "s", "o", "l", "u", "t", "i", "o", "n", "s", " ",
       "i", "n", "c", "l", "u", "d", "i", "n", "g", " ", "a", "u", "t", "h",
       "e", "n", "t", "i", "c", "a", "t", "i", "o", "n", " ", "p", "r", "o",
       "b", "l", "e", "m", "s", ",", " ", "p", "e", "r", "f", "o", "r", "m",
       "a", "n", "c", "e", " ", "i", "s", "s", "u", "e", "s", ",", " ", "s",
       "e", "a", "r", "c", "h", " ", "n", "o", "t", " ", "w", "o", "r", "k",
       "i", "n", "g", ",", " ", "a", "n", "d", " ", "g", "e", "t", "t", "i",
       "n", "g", " ", "h", "e", "l", "p", " ", "p", "r", "o", "c", "e", "d",
       "u", "r", "e", "s", ".">>,
   source |-> "wiki",
   metadata |-> [category |-> "support", tags |-> <<"troubleshooting", "authentication", "performance">>]]

\* "API authentication timeout"
Query_exact_match ==
  <<"A", "P", "I", " ", "a", "u", "t", "h", "e", "n", "t", "i", "c", "a",
    "t", "i", "o", "n", " ", "t", "i", "m", "e", "o", "u", "t">>

\* "nonexistent query xyz123"
Query_no_results ==
  <<"n", "o", "n", "e", "x", "i", "s", "t", "e", "n", "t", " ", "q", "u",
    "e", "r", "y", " ", "x", "y", "z", "1", "2", "3">>

\* "database performance"
Query_partial_match ==
  <<"d", "a", "t", "a", "b", "a", "s", "e", " ", "p", "e", "r", "f", "o",
    "r", "m", "a", "n", "c", "e">>

\* "test"
Query_limit ==
  <<"t", "e", "s", "t">>

\* "API authentication"
Query_scoring ==
  <<"A", "P", "I", " ", "a", "u", "t", "h", "e", "n", "t", "i", "c", "a",
    "t", "i", "o", "n">>

\* "authentication"
Query_filters ==
  <<"a", "u", "t", "h", "e", "n", "t", "i", "c", "a", "t", "i", "o", "n">>

\* ""
Query_empty ==
  <<>>

ShippedDocuments ==
  <<Doc_issue_1001, Doc_issue_1002, Doc_wiki_api_docs, Doc_wiki_troubleshooting>>

TestQueries ==
  {Query_exact_match, Query_no_results, Query_partial_match, Query_limit,
   Query_scoring, Query_filters, Query_empty}

----------------------------------------------------------------------------
(* Bounded corpora and queries over a three-letter alphabet: a lowercase   *)
(* letter, an uppercase letter and the space.                              *)

Chars == {"a", "B", " "}

Str(n) == UNION {[1..k -> Chars] : k \in 0..n}

Titles == {<<"a">>, <<"B">>, <<"a", " ", "B">>}

Contents == {<<>>, <<"B", "a">>}

DocIds == <<"issue-1001", "issue-1002", "wiki-api-docs", "wiki-troubleshooting">>

DocSources == <<"issue", "issue", "wiki", "wiki">>

Corpus(titles, contents) ==
  [i \in 1..Len(titles) |->
     [id |-> DocIds[i],
      title |-> titles[i],
      content |-> contents[i],
      source |-> DocSources[i],
      metadata |-> [tags |-> <<>>]]]

Corpora ==
  UNION {{Corpus(titles, contents) :
            titles \in [1..n -> Titles], contents \in [1..n -> Contents]} :
         n \in 0..MaxDocs}

Queries == Str(MaxQueryLen)

\* Contents around the display limit of line 134: a filler no query letter
\* occurs in, up to MaxOver characters short of the limit or past it, and
\* then a tail of query letters.
Filler(n) == [i \in 1..n |-> "x"]

Tails == {<<>>, <<"B">>, <<"B", "a">>}

LongContents ==
  {Filler(n) \o tail :
     n \in (DisplayLimit - MaxOver)..(DisplayLimit + MaxOver), tail \in Tails}

LongCorpora == {Corpus(<<<<"a">>>>, <<content>>) : content \in LongContents}

----------------------------------------------------------------------------
(* Specifications.                                                         *)

Init ==
  /\ MOCK_DOCUMENTS \in Corpora
  /\ request \in [query : Queries, max_results : (-MaxResults)..MaxResults]
  /\ response = NoResponse
  /\ HarnessIdle
  /\ IndexIdle
  /\ WaitIdle

Next == search

Spec == Init /\ [][Next]_vars

\* The shipped corpus under the queries of the service's tests, with
\* max_results up to the request's default.
InitShipped ==
  /\ MOCK_DOCUMENTS = ShippedDocuments
  /\ request \in [query : TestQueries,
                  max_results : (-MaxResults)..DefaultMaxResults]
  /\ response = NoResponse
  /\ HarnessIdle
  /\ IndexIdle
  /\ WaitIdle

SpecShipped == InitShipped /\ [][Next]_vars

\* One document whose content is about as long as the display limit.
InitLong ==
  /\ MOCK_DOCUMENTS \in LongCorpora
  /\ request \in [query : Queries, max_results : (-MaxResults)..MaxResults]
  /\ response = NoResponse
  /\ HarnessIdle
  /\ IndexIdle
  /\ WaitIdle

SpecLong == InitLong /\ [][Next]_vars

----------------------------------------------------------------------------
(* wait_for_services, lines 85-103, one attempt at a time.  What the       *)
(* polled service does is the environment's choice: it answers 200, it     *)
(* answers another status, or the request raises.  The two seconds of      *)
(* line 103 pass between attempts and change nothing else.                 *)

\* The for loop of line 92 goes on to the next service; after the last
\* one wait_for_services returns and the fixture of line 336 hands over
\* the test object.
LeaveService ==
  /\ attempt' = 0
  /\ service' = IF service = Len(services) THEN service ELSE service + 1
  /\ pc' = IF service = Len(services) THEN "ready" ELSE "wait"

\* Lines 96-99: status 200, break.
WaitAnswered200 ==
  /\ pc = "wait"
  /\ requests_made' = [requests_made EXCEPT ![service] = @ + 1]
  /\ ready' = ready \cup {service}
  /\ LeaveService
  /\ UNCHANGED <<test_queries, backends, qi, now, calls, baseline_result,
                 rag_result, rag_locals, failed, test_results, report, error>>
  /\ UNCHANGED svars

\* Lines 96-97 with another status: neither branch is taken and the loop
\* of line 94 goes on; after the last attempt it just ends.
WaitAnsweredOther ==
  /\ pc = "wait"
  /\ requests_made' = [requests_made EXCEPT ![service] = @ + 1]
  /\ IF attempt + 1 = max_retries
     THEN LeaveService
     ELSE /\ attempt' = attempt + 1
          /\ UNCHANGED <<pc, service>>
  /\ UNCHANGED ready
  /\ UNCHANGED <<test_queries, backends, qi, now, calls, baseline_result,
                 rag_result, rag_locals, failed, test_results, report, error>>
  /\ UNCHANGED svars

\* Lines 100-103: RequestException; on the last attempt the Exception of
\* line 102 leaves wait_for_services, before that the loop sleeps.
WaitRaised ==
  /\ pc = "wait"
  /\ requests_made' = [requests_made EXCEPT ![service] = @ + 1]
  /\ IF attempt = max_retries - 1
     THEN /\ error' = "Exception: not ready"
          /\ pc' = "raised"
          /\ UNCHANGED <<service, attempt>>
     ELSE /\ attempt' = attempt + 1
          /\ UNCHANGED <<pc, service, error>>
  /\ UNCHANGED ready
  /\ UNCHANGED <<test_queries, backends, qi, now, calls, baseline_result,
                 rag_result, rag_locals, failed, test_results, report>>
  /\ UNCHANGED svars

WaitNext ==
  \/ WaitAnswered200
  \/ WaitAnsweredOther
  \/ WaitRaised

----------------------------------------------------------------------------
(* Bounded result items, keyword lists, backend answers and suites.        *)

ItemA == [title |-> <<"a">>, description |-> <<>>]

ItemB == [title |-> <<"B">>, description |-> <<"a">>]

ItemAB == [title |-> <<"a">>, description |-> <<"B">>]

ItemPool == {ItemA, ItemB, ItemAB}

ResultLists == UNION {[1..k -> ItemPool] : k \in 0..MaxItems}

\* Keywords: an uppercase letter, a phrase that only the space between
\* title and description completes, and a letter no item holds.
KeywordB == <<"B">>

KeywordPhrase == <<"A", " ", "b">>

KeywordX == <<"x">>

KeywordLists ==
  {<<>>, <<KeywordB>>, <<KeywordB, KeywordX>>,
   <<KeywordPhrase, KeywordB, KeywordB>>}

Backends(baseline, primary, fallback) ==
  [baseline |-> baseline, primary |-> primary, fallback |-> fallback]

ValidConfig(expected_keywords) ==
  QueryConfig("query", "exact_match", expected_keywords, AllKeys)

\* One query; every request meets each kind of answer, quick or slow.
RunnerDurations == {1, 4}

RunnerOutcomes ==
  UNION {{Raised(d), Status(404, d), Status(500, d), Status(503, d),
          NotJson(d), Items(<<>>, d), Items(<<ItemA>>, d),
          Counted(<<ItemA>>, 7, d), Counted(<<>>, 7, d)} :
         d \in RunnerDurations}

InitRunner ==
  /\ test_queries = <<ValidConfig(<<KeywordB>>)>>
  /\ backends \in {<<Backends(b, p, f)>> :
                     b \in RunnerOutcomes, p \in RunnerOutcomes,
                     f \in RunnerOutcomes}
  /\ HarnessStart
  /\ IndexIdle
  /\ WaitIdle
  /\ MOCK_DOCUMENTS = ShippedDocuments
  /\ request = [query |-> <<>>, max_results |-> DefaultMaxResults]
  /\ response = NoResponse

SpecRunner == InitRunner /\ [][HarnessNext]_vars

\* One query; the result lists, the reported counts, the durations and the
\* expected keywords vary.
MetricDurations == {0, 5, 12}

BaselineMetricOutcomes ==
  {Items(results, d) : results \in ResultLists, d \in MetricDurations}

PrimaryMetricOutcomes ==
  {Counted(results, count, d) :
     results \in {<<>>, <<ItemB>>, <<ItemAB, ItemA>>}, count \in 0..MaxCount,
     d \in {0, 5}}
  \cup {Status(503, 0)}

InitMetrics ==
  /\ test_queries \in {<<ValidConfig(kws)>> : kws \in KeywordLists}
  /\ backends \in {<<Backends(b, p, Items(<<ItemA>>, 5))>> :
                     b \in BaselineMetricOutcomes,
                     p \in PrimaryMetricOutcomes}
  /\ HarnessStart
  /\ IndexIdle
  /\ WaitIdle
  /\ MOCK_DOCUMENTS = ShippedDocuments
  /\ request = [query |-> <<>>, max_results |-> DefaultMaxResults]
  /\ response = NoResponse

SpecMetrics == InitMetrics /\ [][HarnessNext]_vars

\* Suites of up to MaxQueries queries.  A case is a configuration and what
\* its requests meet: the candidate better, worse or equal to the
\* baseline, a configuration that lacks one of its keys, and
\* expected_keywords = [] with and without results.
CandidateBetter ==
  Backends(Items(<<ItemA>>, 2), Counted(<<ItemB>>, 12, 1), Raised(0))

CandidateWorse ==
  Backends(Items(<<ItemB>>, 1), Raised(3), Raised(0))

CandidateEqual ==
  Backends(Items(<<ItemA>>, 1), Status(503, 1), Items(<<ItemA>>, 0))

NothingFound ==
  Backends(Raised(1), Items(<<>>, 1), Raised(0))

SuiteCases ==
  {<<QueryConfig("better", "exact_match", <<KeywordB>>, AllKeys),
     CandidateBetter>>,
   <<QueryConfig("worse", "semantic", <<KeywordB>>, AllKeys),
     CandidateWorse>>,
   <<QueryConfig("equal", "contextual", <<KeywordB>>, AllKeys),
     CandidateEqual>>,
   <<QueryConfig("no type", "", <<KeywordB>>, AllKeys \ {"type"}),
     CandidateBetter>>,
   <<QueryConfig("no keywords", "exact_match", <<>>,
                 AllKeys \ {"expected_keywords"}),
     CandidateBetter>>,
   <<QueryConfig("", "exact_match", <<KeywordB>>, AllKeys \ {"query"}),
     CandidateBetter>>,
   <<QueryConfig("empty keywords", "exact_match", <<>>, AllKeys),
     CandidateBetter>>,
   <<QueryConfig("nothing found", "exact_match", <<>>, AllKeys),
     NothingFound>>}

Suites == UNION {[1..n -> SuiteCases] : n \in 0..MaxQueries}

InitSuite ==
  /\ \E suite \in Suites :
       /\ test_queries = [i \in 1..Len(suite) |-> suite[i][1]]
       /\ backends = [i \in 1..Len(suite) |-> suite[i][2]]
  /\ HarnessStart
  /\ IndexIdle
  /\ WaitIdle
  /\ MOCK_DOCUMENTS = ShippedDocuments
  /\ request = [query |-> <<>>, max_results |-> DefaultMaxResults]
  /\ response = NoResponse

SpecSuite == InitSuite /\ [][HarnessNext]_vars

\* The fixture integration_test, lines 336-341, calls wait_for_services.
InitWait ==
  /\ test_queries = <<>>
  /\ backends = <<>>
  /\ pc = "wait"
  /\ qi = 1
  /\ now = 0
  /\ calls = <<>>
  /\ baseline_result = NoResult
  /\ rag_result = NoResult
  /\ rag_locals = [start_time |-> 0, response_time |-> 0]
  /\ failed = <<>>
  /\ test_results = <<>>
  /\ report = NoReport
  /\ error = "none"
  /\ service = 1
  /\ attempt = 0
  /\ requests_made = [s \in 1..Len(services) |-> 0]
  /\ ready = {}
  /\ MOCK_DOCUMENTS = ShippedDocuments
  /\ request = [query |-> <<>>, max_results |-> DefaultMaxResults]
  /\ response = NoResponse
  /\ IndexIdle

SpecWait == InitWait /\ [][WaitNext]_vars

----------------------------------------------------------------------------
(* The index endpoints of the service, app.py lines 185-222, next to       *)
(* /search, with one request after another.                                *)

\* Documents a client submits to /index/add: none, or copies of a shipped
\* document under new ids, which every query that finds the original
\* would find as well.
SubmittedDocuments ==
  {<<>>,
   <<[Doc_issue_1001 EXCEPT !.id = "test-doc-1"]>>,
   <<[Doc_issue_1001 EXCEPT !.id = "test-doc-1"],
     [Doc_wiki_api_docs EXCEPT !.id = "test-doc-2"]>>}

SearchRequests == [query : TestQueries, max_results : {1, DefaultMaxResults}]

\* POST /search, lines 158-183, for a request of the client's choice.
post_search ==
  /\ Len(served) < MaxRequests
  /\ \E posted \in SearchRequests :
       /\ request' = posted
       /\ LET results == simple_search(posted.query, posted.max_results,
                                       MOCK_DOCUMENTS)
          IN response' = [status_code |-> 200,
                          query |-> posted.query,
                          results |-> results,
                          total_count |-> Len(results),
                          method |-> "rag"]
  /\ served' = Append(served, "/search")
  /\ UNCHANGED <<MOCK_DOCUMENTS, index_response>>
  /\ UNCHANGED hvars
  /\ UNCHANGED wvars

\* POST /index/rebuild, lines 185-203.
rebuild_index ==
  /\ Len(served) < MaxRequests
  /\ index_response' =
       [status |-> "success",
        message |-> <<"Index rebuild completed">>,
        documents_indexed |-> Len(MOCK_DOCUMENTS),
        keys |-> {"status", "message", "documents_indexed", "timestamp"}]
  /\ served' = Append(served, "/index/rebuild")
  /\ UNCHANGED <<MOCK_DOCUMENTS, request, response>>
  /\ UNCHANGED hvars
  /\ UNCHANGED wvars

\* An /index/add that puts the submitted documents into the corpus.
add_documents_indexing ==
  /\ Len(served) < MaxRequests
  /\ \E documents \in SubmittedDocuments :
       /\ MOCK_DOCUMENTS' = MOCK_DOCUMENTS \o documents
       /\ index_response' =
            [status |-> "success",
             message |-> <<"Added", Len(documents), "documents to index">>,
             documents_indexed |-> 0,
             keys |-> {"status", "message", "timestamp"}]
  /\ served' = Append(served, "/index/add")
  /\ UNCHANGED <<request, response>>
  /\ UNCHANGED hvars
  /\ UNCHANGED wvars

\* POST /index/add, lines 205-222: the documents are counted for the
\* message and nothing else is done with them.
add_documents ==
  /\ Len(served) < MaxRequests
  /\ \E documents \in SubmittedDocuments :
       index_response' =
         [status |-> "success",
          message |-> <<"Added", Len(documents), "documents to index">>,
          documents_indexed |-> 0,
          keys |-> {"status", "message", "timestamp"}]
  /\ served' = Append(served, "/index/add")
  /\ UNCHANGED <<MOCK_DOCUMENTS, request, response>>
  /\ UNCHANGED hvars
  /\ UNCHANGED wvars

IndexNext ==
  \/ post_search
  \/ rebuild_index
  \/ add_documents

InitIndex ==
  /\ MOCK_DOCUMENTS = ShippedDocuments
  /\ request = [query |-> <<>>, max_results |-> DefaultMaxResults]
  /\ response = NoResponse
  /\ IndexIdle
  /\ HarnessIdle
  /\ WaitIdle

SpecIndex == InitIndex /\ [][IndexNext]_vars

----------------------------------------------------------------------------
(* What the properties below speak of.                                     *)

Served == response.status_code = 200

Results == response.results

\* The place of the document with this id in the corpus (ids are unique).
PositionOf(id) ==
  CHOOSE i \in 1..Len(MOCK_DOCUMENTS) : MOCK_DOCUMENTS[i].id = id

DocOf(id) == MOCK_DOCUMENTS[PositionOf(id)]

InCorpus(id) == \E i \in 1..Len(MOCK_DOCUMENTS) : MOCK_DOCUMENTS[i].id = id

Min(a, b) == IF a < b THEN a ELSE b

\* The additive reference score of the specification, stated on its own:
\* case is folded letter by letter, a substring is a SubSeq, and the words
\* of the query are its maximal whitespace-free stretches, each occurrence
\* counted.
Folded(s) == [i \in 1..Len(s) |-> IF s[i] \in DOMAIN LowerOf THEN LowerOf[s[i]] ELSE s[i]]

IsSubstring(needle, hay) ==
  \E a \in 0..Len(hay) :
    /\ a + Len(needle) <= Len(hay)
    /\ SubSeq(hay, a + 1, a + Len(needle)) = needle

WordSpans(q) ==
  {span \in (1..Len(q)) \X (1..Len(q)) :
     /\ span[1] <= span[2]
     /\ \A k \in span[1]..span[2] : q[k] \notin Whitespace
     /\ span[1] = 1 \/ q[span[1] - 1] \in Whitespace
     /\ span[2] = Len(q) \/ q[span[2] + 1] \in Whitespace}

ReferenceScore(doc, query) ==
  LET q == Folded(query)
      t == Folded(doc.title)
      c == Folded(doc.content)
      inTitle == {span \in WordSpans(q) : IsSubstring(SubSeq(q, span[1], span[2]), t)}
      inContent == {span \in WordSpans(q) : IsSubstring(SubSeq(q, span[1], span[2]), c)}
  IN (IF IsSubstring(q, t) THEN 8 ELSE 0)
     + (IF IsSubstring(q, c) THEN 5 ELSE 0)
     + 3 * Cardinality(inTitle)
     + Cardinality(inContent)

Matching(query) ==
  {i \in 1..Len(MOCK_DOCUMENTS) : ReferenceScore(MOCK_DOCUMENTS[i], query) > 0}

----------------------------------------------------------------------------
(* Properties.                                                             *)

\* C1: for every non-empty corpus and every max_results, the empty query is
\* answered with an empty result list.
C1_EmptyQueryReturnsNothing ==
  (Served /\ request.query = <<>> /\ MOCK_DOCUMENTS # <<>>) => Results = <<>>

\* C2: over the shipped documents, "nonexistent query xyz123" with
\* max_results = 10 is answered with an empty result list and a total
\* count of 0.
C2_NoMatchQueryReturnsNothing ==
  (Served /\ request.query = Query_no_results /\ request.max_results = 10)
    => (Results = <<>> /\ response.total_count = 0)

\* C3: whenever max_results is zero or negative, the result list is empty.
C3_NonPositiveLimitReturnsNothing ==
  (Served /\ request.max_results <= 0) => Results = <<>>

\* C4: for max_results N >= 0 the result list has at most N items, and
\* exactly min(N, number of documents whose score is > 0).
C4_TruncationLaw ==
  (Served /\ request.max_results >= 0)
    => /\ Len(Results) <= request.max_results
       /\ Len(Results) =
            Min(request.max_results, Cardinality(Matching(request.query)))

\* C4 witness: more documents match than max_results allows, and the list
\* was cut to max_results.
C4_Witness ==
  /\ Served
  /\ request.max_results >= 1
  /\ Cardinality(Matching(request.query)) > request.max_results
  /\ Len(Results) = request.max_results

\* C5: the scores of the result list never increase from one position to
\* the next.
C5_ScoresNonIncreasing ==
  Served => \A i \in 1..(Len(Results) - 1) :
              Results[i].score >= Results[i + 1].score

\* C5 witness: a later document of the corpus outscored an earlier one and
\* was moved in front of it.
C5_Witness ==
  /\ Served
  /\ Len(Results) >= 2
  /\ Results[1].score > Results[2].score
  /\ PositionOf(Results[1].id) > PositionOf(Results[2].id)

\* C6: every result has a score > 0 and is a document of the corpus with
\* that score; a document whose score is 0 is in no result list.
C6_OnlyPositiveScores ==
  Served =>
    /\ \A i \in 1..Len(Results) :
         /\ Results[i].score > 0
         /\ InCorpus(Results[i].id)
         /\ Results[i].title = DocOf(Results[i].id).title
         /\ Results[i].source = DocOf(Results[i].id).source
         /\ Results[i].metadata = DocOf(Results[i].id).metadata
         /\ Results[i].score = ReferenceScore(DocOf(Results[i].id), request.query)
    /\ \A j \in 1..Len(MOCK_DOCUMENTS) :
         ReferenceScore(MOCK_DOCUMENTS[j], request.query) = 0
           => \A i \in 1..Len(Results) : Results[i].id # MOCK_DOCUMENTS[j].id

\* C6 witness: a query with a word in it left one document out for its zero
\* score and returned another.
C6_Witness ==
  /\ Served
  /\ split(lower(request.query)) # <<>>
  /\ Results # <<>>
  /\ \E j \in 1..Len(MOCK_DOCUMENTS) :
       ReferenceScore(MOCK_DOCUMENTS[j], request.query) = 0

\* C7: the ranking is stable: two results with equal scores stand in the
\* order of their documents in the corpus, also under the descending sort.
C7_EqualScoresKeepCorpusOrder ==
  Served => \A i \in 1..Len(Results), j \in 1..Len(Results) :
              (i < j /\ Results[i].score = Results[j].score)
                => PositionOf(Results[i].id) < PositionOf(Results[j].id)

\* C7 witness: two results tie.
C7_Witness ==
  /\ Served
  /\ Len(Results) >= 2
  /\ Results[1].score = Results[2].score
  /\ split(lower(request.query)) # <<>>

\* C8: for a non-empty query, the score of every result is the additive
\* reference score of its document, and every document left out when
\* max_results admits the whole corpus has reference score 0.
C8_ScoreIsAdditiveReference ==
  (Served /\ request.query # <<>>) =>
    /\ \A i \in 1..Len(Results) :
         Results[i].score = ReferenceScore(DocOf(Results[i].id), request.query)
    /\ request.max_results >= Len(MOCK_DOCUMENTS) =>
         \A j \in 1..Len(MOCK_DOCUMENTS) :
           \/ \E i \in 1..Len(Results) :
                /\ Results[i].id = MOCK_DOCUMENTS[j].id
                /\ Results[i].score =
                     ReferenceScore(MOCK_DOCUMENTS[j], request.query)
           \/ ReferenceScore(MOCK_DOCUMENTS[j], request.query) = 0

\* C8 witness: a query that repeats a word and holds an uppercase letter
\* scored a title twice for the word, with no match of the whole query.
C8_Witness ==
  /\ Served
  /\ request.query = <<"B", " ", "B">>
  /\ \E i \in 1..Len(Results) :
       /\ DocOf(Results[i].id).title = <<"a", " ", "B">>
       /\ DocOf(Results[i].id).content = <<>>
       /\ Results[i].score = 2 * TitleWordScore

\* C9: over the shipped documents, "API authentication timeout" with
\* max_results = 10 returns issue-1001 first, with a score of at least
\* 0.8 + 0.3 + 0.3 + 0.1 that is above the score of every other result.
C9_ExactMatchRanksIssue1001First ==
  (Served /\ request.query = Query_exact_match /\ request.max_results = 10)
    => /\ Results # <<>>
       /\ Results[1].id = "issue-1001"
       /\ Results[1].score >= 8 + 3 + 3 + 1
       /\ \A i \in 2..Len(Results) : Results[i].score < Results[1].score

\* C9 witness: that request was served and other documents were returned
\* behind the first.
C9_Witness ==
  /\ Served
  /\ request.query = Query_exact_match
  /\ request.max_results = 10
  /\ MOCK_DOCUMENTS = ShippedDocuments
  /\ Len(Results) >= 2

\* C10: a result's content is the document's content when that has at most
\* 200 characters, and else its first 200 characters followed by "...";
\* the score is the score of the whole content.
C10_ContentCutForDisplayOnly ==
  Served => \A i \in 1..Len(Results) :
    LET doc == DocOf(Results[i].id)
        shown == Results[i].content
    IN /\ Len(doc.content) <= 200 => shown = doc.content
       /\ Len(doc.content) > 200 =>
            /\ Len(shown) = 203
            /\ SubSeq(shown, 1, 200) = SubSeq(doc.content, 1, 200)
            /\ SubSeq(shown, 201, 203) = <<".", ".", ".">>
       /\ Results[i].score = ReferenceScore(doc, request.query)

\* C10 witness: the only occurrence of the query's word lies past the
\* 200th character of the content, the title does not hold it, and the
\* document was returned with its content cut.
C10_Witness ==
  /\ Served
  /\ request.query = <<"B">>
  /\ Len(Results) = 1
  /\ Len(DocOf(Results[1].id).content) > 200
  /\ ~IsSubstring(<<"b">>, Folded(SubSeq(DocOf(Results[1].id).content, 1, 200)))
  /\ ~IsSubstring(<<"b">>, Folded(DocOf(Results[1].id).title))
  /\ Results[1].score = ContentQueryScore + ContentWordScore
  /\ Len(Results[1].content) = 203

----------------------------------------------------------------------------
(* The comparison harness.                                                 *)

\* The configuration and the answers of the query in hand.
Config == test_queries[qi]

Met == backends[qi]

\* A request failed: network failure, timeout, or a non-success status.
Failed(met) == met.raises \/ met.status_code # 200

\* A request succeeded with a JSON body.
Healthy(met) == ~met.raises /\ met.status_code = 200 /\ met.json_ok

\* Both runners have returned.
Compared == pc = "metrics"

\* C11: in one comparison both requests are issued whatever the other
\* one met, both runners return a SearchResult, a method whose requests all
\* failed has results = [] and total_count = 0, and a method whose request
\* succeeded has the items its own backend returned.
C11_FailureDegradesOneMethodOnly ==
  Compared =>
    /\ error = "none"
    /\ calls[1] = "baseline" /\ calls[2] = "primary"
    /\ baseline_result.method = "baseline"
    /\ rag_result.method = "rag"
    /\ Failed(Met.baseline) =>
         baseline_result.results = <<>> /\ baseline_result.total_count = 0
    /\ Met.primary.raises \/ (Failed(Met.primary) /\ Failed(Met.fallback)) =>
         rag_result.results = <<>> /\ rag_result.total_count = 0
    /\ Healthy(Met.baseline) => baseline_result.results = Met.baseline.results
    /\ Healthy(Met.primary) => rag_result.results = Met.primary.results
    /\ Failed(Met.primary) /\ ~Met.primary.raises /\ Healthy(Met.fallback) =>
         rag_result.results = Met.fallback.results

\* The candidate times out while the baseline is healthy, and the reverse.
C11_Witness ==
  /\ Compared
  /\ Met.primary.raises
  /\ baseline_result.results # <<>>
  /\ rag_result.results = <<>> /\ rag_result.total_count = 0

\* The fallback request was made for the query in hand.
FallbackCalled == \E i \in 1..Len(calls) : calls[i] = "fallback"

CallsTo(endpoint) == {i \in 1..Len(calls) : calls[i] = endpoint}

\* C13: for one query run_rag_search calls the primary endpoint exactly
\* once and the fallback endpoint at most once, the fallback only after
\* the primary request has returned, and no outcome, a failed fallback
\* included, leads to a further request.
C13_OnePrimaryAtMostOneFallback ==
  /\ Cardinality(CallsTo("primary")) <= 1
  /\ Cardinality(CallsTo("fallback")) <= 1
  /\ \A f \in CallsTo("fallback") : \E p \in CallsTo("primary") : p < f
  /\ Compared =>
       /\ Cardinality(CallsTo("primary")) = 1
       /\ FallbackCalled =>
            /\ calls = <<"baseline", "primary", "fallback">>
            /\ now = rag_locals.start_time + rag_locals.response_time
                       + Met.fallback.duration

\* The fallback was called and failed, and run_rag_search has returned.
C13_Witness ==
  /\ Compared
  /\ calls = <<"baseline", "primary", "fallback">>
  /\ Failed(Met.fallback)

\* The count a 200 response reports: its total_count when it carries one,
\* the number of its items otherwise.
ReportedCount(met) ==
  IF met.has_total_count THEN met.total_count ELSE Len(met.results)

\* The fallback request succeeded after a non-success first request.
FallbackSucceeded ==
  ~Met.primary.raises /\ Met.primary.status_code # 200 /\ Healthy(Met.fallback)

\* C14: on each successful path of the runner (baseline, primary
\* candidate, fallback candidate) total_count is the count the backend
\* reported when the response carries a total_count, and the number of
\* returned items only when it carries none.
C14_TotalCountIsTheReportedCount ==
  Compared =>
    /\ Healthy(Met.baseline) =>
         baseline_result.total_count = ReportedCount(Met.baseline)
    /\ Healthy(Met.primary) =>
         rag_result.total_count = ReportedCount(Met.primary)
    /\ FallbackSucceeded =>
         rag_result.total_count = ReportedCount(Met.fallback)

\* A ratio within [0, 1].
InUnit(r) == RatLeq(Whole(0), r) /\ RatLeq(r, Whole(1))

Methods == {"baseline", "rag"}

\* C15: for every outcome of the runners and every expected_keywords,
\* the empty list included, the metrics are computed without raising
\* (no query is left out for it) and relevance_score, precision and
\* recall lie in [0, 1].
C15_MetricsInUnitIntervalWithoutRaising ==
  /\ failed = <<>>
  /\ \A i \in 1..Len(test_results) : \A method \in Methods :
       /\ InUnit(test_results[i].metrics[method].relevance_score)
       /\ InUnit(test_results[i].metrics[method].precision)
       /\ InUnit(test_results[i].metrics[method].recall)

\* The metrics of the records made so far, one per record and method.
MetricsMade ==
  {test_results[i].metrics[method] :
     i \in 1..Len(test_results), method \in Methods}

\* Ten times the numerator of precision - response_time / 10 over the
\* denominator 10 * precision.den.
SatisfactionNumerator(t) ==
  10 * t.precision.num - t.response_time * t.precision.den

\* C16: user_satisfaction is max(0, precision - response_time / 10) for
\* the baseline and for the candidate: never negative, and with
\* response_time >= 0 never above precision.
C16_SatisfactionIsFlooredPenalty ==
  \A t \in MetricsMade :
    /\ IF SatisfactionNumerator(t) <= 0
       THEN t.user_satisfaction.num = 0
       ELSE t.user_satisfaction.num * (10 * t.precision.den)
              = SatisfactionNumerator(t) * t.user_satisfaction.den
    /\ t.user_satisfaction.num >= 0 /\ t.user_satisfaction.den > 0
    /\ t.response_time >= 0 =>
         t.user_satisfaction.num * t.precision.den
           <= t.precision.num * t.user_satisfaction.den

\* One record with both cases: the baseline's penalty exceeds its positive
\* precision (floored at 0), the candidate's is smaller than its precision.
C16_Witness ==
  /\ Len(test_results) = 1
  /\ LET b == test_results[1].metrics.baseline
         r == test_results[1].metrics.rag
     IN /\ b.precision.num > 0
        /\ SatisfactionNumerator(b) < 0
        /\ b.user_satisfaction = Whole(0)
        /\ r.response_time > 0
        /\ SatisfactionNumerator(r) > 0
        /\ RatLess(r.user_satisfaction, r.precision)

\* The queries dealt with so far that were not left out, in suite order.
CompletedQueries ==
  LET done == {i \in 1..Len(test_queries) :
                 i < qi /\ \A f \in 1..Len(failed) : failed[f] # i}
  IN CHOOSE s \in [1..Cardinality(done) -> done] :
       \A i, j \in 1..Cardinality(done) : i < j => s[i] < s[j]

\* The pairs (item, keyword) of an outcome in which the keyword occurs,
\* case folded, in the item's title, a space and its description.
KeywordHits(outcome, keywords) ==
  {hit \in (1..Len(outcome.results)) \X (1..Len(keywords)) :
     IsSubstring(Folded(keywords[hit[2]]),
                 Folded(outcome.results[hit[1]].title \o <<" ">>
                          \o outcome.results[hit[1]].description))}

\* C17: relevance_score is 0 for an outcome without results and otherwise
\* the mean over the result items of the fraction of expected_keywords
\* that occur, case-insensitively, in the item's title-plus-description
\* text; precision equals relevance_score.
C17_RelevanceIsMeanKeywordFraction ==
  \A i \in 1..Len(test_results) : \A method \in Methods :
    LET outcome == test_results[i][method]
        keywords == test_queries[CompletedQueries[i]].expected_keywords
        t == test_results[i].metrics[method]
    IN /\ IF Len(outcome.results) = 0
          THEN t.relevance_score.num = 0
          ELSE t.relevance_score.num * (Len(keywords) * Len(outcome.results))
                 = Cardinality(KeywordHits(outcome, keywords))
                     * t.relevance_score.den
       /\ t.precision = t.relevance_score

\* A baseline of two items with relevance strictly between 0 and 1 next
\* to a candidate without results.
C17_Witness ==
  /\ Len(test_results) = 1
  /\ Len(test_results[1].baseline.results) = 2
  /\ RatLess(Whole(0), test_results[1].metrics.baseline.relevance_score)
  /\ RatLess(test_results[1].metrics.baseline.relevance_score, Whole(1))
  /\ test_results[1].rag.results = <<>>
  /\ test_results[1].metrics.rag.relevance_score = Whole(0)

\* C18: recall is min(total_count / 10, 1): it is fixed by total_count
\* alone, whatever the number of returned items and the keywords, it does
\* not decrease when total_count grows, and it is 1 from total_count = 10
\* on.
C18_RecallIsCappedCountOverTen ==
  \A i \in 1..Len(test_results) :
    /\ \A method \in Methods :
         LET total_count == test_results[i][method].total_count
             recall == test_results[i].metrics[method].recall
         IN IF total_count >= 10
            THEN recall = Whole(1)
            ELSE recall.num * 10 = total_count * recall.den
    /\ \A j \in 1..Len(test_results) : \A m1, m2 \in Methods :
         test_results[i][m1].total_count <= test_results[j][m2].total_count
           => RatLeq(test_results[i].metrics[m1].recall,
                     test_results[j].metrics[m2].recall)

\* The candidate reports more than ten matches with one item returned
\* (recall 1) while the baseline's two items give a recall below 1.
C18_Witness ==
  /\ Len(test_results) = 1
  /\ test_results[1].rag.total_count > 10
  /\ Len(test_results[1].rag.results) = 1
  /\ test_results[1].metrics.rag.recall = Whole(1)
  /\ test_results[1].baseline.total_count = 2
  /\ test_results[1].metrics.baseline.recall = Ratio(1, 5)

\* The report has been generated.
Reported == pc \in {"assert", "done"}

Dimensions == {"precision", "recall", "relevance", "response_time"}

\* C19: a query that fails, for example one whose configuration lacks a
\* required key, is skipped and the evaluation goes on with the next
\* query: the run is not ended by the failure, and the report holds one
\* record per completed query, in suite order, total_tests is their
\* number, and the averages are taken over those records.
C19_FailedQueriesAreSkipped ==
  /\ error # "KeyError"
  /\ Reported =>
       /\ qi = Len(test_queries) + 1
       /\ Len(report.detailed_results) = Len(CompletedQueries)
       /\ \A i \in 1..Len(CompletedQueries) :
            report.detailed_results[i].query
              = test_queries[CompletedQueries[i]].query
       /\ report.summary.total_tests = Len(CompletedQueries)
       /\ report.summary.precision_improvement
            = average_improvement(report.detailed_results, "precision")
       /\ report.summary.recall_improvement
            = average_improvement(report.detailed_results, "recall")
       /\ report.summary.relevance_improvement
            = average_improvement(report.detailed_results, "relevance")
       /\ report.summary.response_time_improvement
            = average_improvement(report.detailed_results, "response_time")

\* The loop over the suite is over and what follows it has begun.
LoopOver == qi = Len(test_queries) + 1 /\ pc # "loop"

\* C20: when no query of the run completed, the run fails with the
\* assertion "No tests completed successfully" and the averages are never
\* attempted: report generation does not divide by zero.
C20_NoResultsInsteadOfZeroDivision ==
  /\ error # "ZeroDivisionError"
  /\ LoopOver /\ test_results = <<>> =>
       /\ pc = "raised"
       /\ error = "AssertionError: No tests completed successfully"

\* The product of the denominators of one dimension's deltas, from record
\* i on, and the sum of the deltas as a numerator over that product.
RECURSIVE DenominatorProduct(_, _, _)
DenominatorProduct(records, dimension, i) ==
  IF i > Len(records)
  THEN 1
  ELSE records[i].improvement[dimension].den
         * DenominatorProduct(records, dimension, i + 1)

RECURSIVE ScaledSum(_, _, _, _)
ScaledSum(records, dimension, scale, i) ==
  IF i > Len(records)
  THEN 0
  ELSE records[i].improvement[dimension].num
         * (scale \div records[i].improvement[dimension].den)
       + ScaledSum(records, dimension, scale, i + 1)

\* `average` is the arithmetic mean of the dimension over the records.
IsMean(average, records, dimension) ==
  LET scale == DenominatorProduct(records, dimension, 1)
  IN average.num * (Len(records) * scale)
       = ScaledSum(records, dimension, scale, 1) * average.den

\* `tally` is "count/total" with the count of strictly positive deltas.
IsTally(tally, records, dimension) ==
  /\ tally.count = Cardinality({i \in 1..Len(records) :
                                  records[i].improvement[dimension].num > 0})
  /\ tally.total = Len(records)
  /\ 0 <= tally.count /\ tally.count <= tally.total

\* C21: for a non-empty list of records every summary value of the report
\* is the arithmetic mean of its dimension over all records, and every
\* improvement count is the number of records whose delta is strictly
\* positive, a delta of 0 not counted, out of the number of records.
C21_ReportIsMeanAndStrictTally ==
  Reported =>
    LET records == report.detailed_results
    IN /\ records = test_results
       /\ Len(records) > 0
       /\ report.summary.total_tests = Len(records)
       /\ IsMean(report.summary.precision_improvement, records, "precision")
       /\ IsMean(report.summary.recall_improvement, records, "recall")
       /\ IsMean(report.summary.relevance_improvement, records, "relevance")
       /\ IsMean(report.summary.response_time_improvement, records,
                 "response_time")
       /\ IsTally(report.improvements.precision, records, "precision")
       /\ IsTally(report.improvements.recall, records, "recall")
       /\ IsTally(report.improvements.relevance, records, "relevance")
       /\ IsTally(report.improvements.speed, records, "response_time")

\* A report over three records whose precision deltas are one positive,
\* one zero and one negative: one improvement out of three.
C21_Witness ==
  /\ Reported
  /\ Len(report.detailed_results) = 3
  /\ \E i, j, k \in 1..3 :
       /\ report.detailed_results[i].improvement.precision.num > 0
       /\ report.detailed_results[j].improvement.precision.num = 0
       /\ report.detailed_results[k].improvement.precision.num < 0
  /\ report.improvements.precision = Tally(1, 3)
  /\ report.summary.recall_improvement = Ratio(4, 15)

\* `delta` is the fraction `minuend` - `subtrahend`.
IsDifference(delta, minuend, subtrahend) ==
  delta.num * (minuend.den * subtrahend.den)
    = (minuend.num * subtrahend.den - subtrahend.num * minuend.den)
        * delta.den

\* C22: in every comparison record the improvement of precision, recall
\* and relevance is the candidate's metric minus the baseline's, and the
\* improvement of response_time is the baseline's response_time minus the
\* candidate's: a positive value means the candidate did better.
C22_ImprovementIsCandidateAdvantage ==
  \A i \in 1..Len(test_results) :
    LET record == test_results[i]
        b == record.metrics.baseline
        r == record.metrics.rag
    IN /\ IsDifference(record.improvement.precision, r.precision, b.precision)
       /\ IsDifference(record.improvement.recall, r.recall, b.recall)
       /\ IsDifference(record.improvement.relevance, r.relevance_score,
                       b.relevance_score)
       /\ record.improvement.response_time.num
            = (record.baseline.response_time - record.rag.response_time)
                * record.improvement.response_time.den
       /\ record.improvement.precision.num > 0
            <=> RatLess(b.precision, r.precision)
       /\ record.improvement.response_time.num > 0
            <=> record.rag.response_time < record.baseline.response_time

\* A candidate that is more precise and slower than the baseline.
C22_Witness ==
  /\ Len(test_results) = 1
  /\ test_results[1].improvement.precision.num > 0
  /\ test_results[1].improvement.response_time.num < 0
  /\ test_results[1].improvement.recall.num < 0

\* C23: each outcome's response_time spans from just before the method's
\* first request to the return or failure of the request that settled the
\* outcome; when the fallback is called, the candidate's response_time
\* includes the fallback request, whether it succeeds, answers a
\* non-success status or raises.
C23_ResponseTimeCoversEveryRequest ==
  Compared =>
    /\ baseline_result.response_time = Met.baseline.duration
    /\ rag_result.response_time
         = Met.primary.duration
             + (IF FallbackCalled THEN Met.fallback.duration ELSE 0)

\* wait_for_services has returned.
WaitReturned == pc = "ready"

\* C24: wait_for_services returns only if every service answered 200 on
\* some attempt; a service that never answers 200 in its 30 attempts,
\* because the requests raise or because it answers other statuses, makes
\* wait_for_services raise; no service is asked more than 30 times.
C24_ReturnsOnlyWhenEveryServiceIsReady ==
  /\ WaitReturned => ready = 1..Len(services)
  /\ \A s \in 1..Len(services) : requests_made[s] <= 30

\* The endpoints answered so far include this one.
Answered(endpoint) == \E i \in 1..Len(served) : served[i] = endpoint

\* C25: no operation of the service modifies the corpus: after any
\* sequence of /search, /index/add and /index/rebuild requests
\* MOCK_DOCUMENTS is what it was, /index/rebuild reports the size of the
\* original corpus, /index/add answers success, and a query is answered
\* with the ranking the original corpus gives.
C25_CorpusIsNeverModified ==
  /\ MOCK_DOCUMENTS = ShippedDocuments
  /\ "documents_indexed" \in index_response.keys =>
       /\ index_response.status = "success"
       /\ index_response.documents_indexed = Len(ShippedDocuments)
  /\ Answered("/index/add") /\ "documents_indexed" \notin index_response.keys =>
       index_response.status = "success"
  /\ Answered("/search") =>
       /\ response.status_code = 200
       /\ response.results
            = simple_search(request.query, request.max_results,
                            ShippedDocuments)
       /\ \A i \in 1..Len(response.results) :
            \E d \in 1..Len(ShippedDocuments) :
              response.results[i].id = ShippedDocuments[d].id

\* Two documents were submitted to /index/add, the index was rebuilt, and
\* the query that finds the original of the first one is then answered
\* with the shipped documents only, "issue-1001" first.
C25_Witness ==
  /\ served = <<"/index/add", "/index/rebuild", "/search">>
  /\ index_response.documents_indexed = 4
  /\ request.query = Query_exact_match
  /\ request.max_results = DefaultMaxResults
  /\ Len(response.results) >= 1
  /\ response.results[1].id = "issue-1001"

============================================================================
